---- MODULE Spec2Model ----
(***************************************************************************)
(* A model of gobble/parser.py: the parser-combinator engine.              *)
(*                                                                         *)
(* A Parser wraps a step function (source, index) -> (value, new_index)    *)
(* that may raise ParseError.  The model runs one parse as an explicit     *)
(* call stack: one frame per active step function, one action per step     *)
(* function.  parse_group, the driver of every generator-built parser,     *)
(* is modelled with the generator as a resumable state machine             *)
(* (next / send / throw).                                                  *)
(***************************************************************************)
EXTENDS Integers, Sequences, FiniteSets, TLC

VARIABLES source, root, mode, start, phase, stack, ret, outcome, log, first

vars == <<source, root, mode, start, phase, stack, ret, outcome, log, first>>

(***************************************************************************)
(* Bounds.                                                                 *)
(***************************************************************************)
MaxLen == 3

NL == "\n"

Chars == {"a", "A", NL}

Whitespace == {NL}

RECURSIVE SeqsUpTo(_)
SeqsUpTo(n) ==
    IF n = 0 THEN {<<>>}
    ELSE LET shorter == SeqsUpTo(n - 1)
         IN shorter \cup {Append(s, c) : s \in {t \in shorter : Len(t) = n - 1}, c \in Chars}

Sources == SeqsUpTo(MaxLen)

Min(x, y) == IF x < y THEN x ELSE y

(***************************************************************************)
(* Python values.  Every value is a tagged record so that values of        *)
(* different Python types can be compared.                                 *)
(***************************************************************************)
None == [k |-> "None"]

Str(cs) == [k |-> "str", s |-> cs]

IntV(n) == [k |-> "int", n |-> n]

List(xs) == [k |-> "list", items |-> xs]

Tuple(xs) == [k |-> "tuple", items |-> xs]

(***************************************************************************)
(* Outcomes of a step function: a returned pair, a raised ParseError, or   *)
(* another exception escaping (IndexError from source[index]).             *)
(***************************************************************************)
NoRet == [k |-> "none"]

Ok(v, i) == [k |-> "ok", value |-> v, index |-> i]

ParseError(loc, msg) == [k |-> "err", location |-> loc, message |-> msg]

IndexError == [k |-> "exc", type |-> "IndexError"]

(***************************************************************************)
(* Python string helpers: slicing clamps to the length of the sequence;    *)
(* repr quotes a string and escapes the newline.                           *)
(***************************************************************************)
Slice(src, lo, hi) == SubSeq(src, lo + 1, Min(hi, Len(src)))

Escape(c) == IF c = NL THEN "\\n" ELSE c

RECURSIVE Join(_)
Join(cs) == IF cs = <<>> THEN "" ELSE Escape(Head(cs)) \o Join(Tail(cs))

Repr(cs) == "'" \o Join(cs) \o "'"

(***************************************************************************)
(* gobble.location.compute_location: offset -> 1-indexed (line, column).   *)
(* The line is bumped once per newline strictly before the index; the      *)
(* column counts the elements since the last newline (or the start) plus   *)
(* one.                                                                    *)
(***************************************************************************)
NewlinesBefore(src, index) == {p \in 1..Min(index, Len(src)) : src[p] = NL}

LastOf(S) == IF S = {} THEN 0 ELSE CHOOSE p \in S : \A q \in S : q <= p

compute_location(src, index) ==
    Tuple(<<IntV(1 + Cardinality(NewlinesBefore(src, index))),
            IntV(index - LastOf(NewlinesBefore(src, index)) + 1)>>)

(***************************************************************************)
(* Normalization functions a caller passes to literal(): the default       *)
(* identity, str.lower and str.strip.                                      *)
(***************************************************************************)
Lower(c) == IF c = "A" THEN "a" ELSE c

RECURSIVE LStrip(_)
LStrip(cs) == IF cs # <<>> /\ Head(cs) \in Whitespace THEN LStrip(Tail(cs)) ELSE cs

RECURSIVE RStrip(_)
RStrip(cs) ==
    IF cs # <<>> /\ cs[Len(cs)] \in Whitespace THEN RStrip(SubSeq(cs, 1, Len(cs) - 1)) ELSE cs

normalize(n, cs) ==
    CASE n = "identity" -> cs
      [] n = "lower" -> [p \in 1..Len(cs) |-> Lower(cs[p])]
      [] n = "strip" -> RStrip(LStrip(cs))

(***************************************************************************)
(* Parser values.  A parser is the tree its constructor closes over.       *)
(***************************************************************************)
location == [t |-> "location"]

dot == [t |-> "dot"]

character(c) == [t |-> "character", character |-> c]

error(message) == [t |-> "error", message |-> message]

literal(value, norm) == [t |-> "literal", value |-> value, normalize |-> norm]

either(a, b) == [t |-> "either", a |-> a, b |-> b]

then(a, b) == [t |-> "then", a |-> a, b |-> b]

followed_by(a, b) == [t |-> "followed_by", a |-> a, b |-> b]

optional(a, default) == [t |-> "optional", a |-> a, default |-> default]

\* optional(a) with the default left out.
option(a) == optional(a, None)

index_ == [t |-> "index"]

replicated(a, operator, min_count) ==
    [t |-> "replicated", a |-> a, operator |-> operator, min_count |-> min_count]

plus(a) == replicated(a, "+", 1)

star(a) == replicated(a, "*", 0)

\* Parser(fn) built directly from a step function that returns (value, index).
succeed(value) == [t |-> "succeed", value |-> value]

\* A user generator handed to parser(): yields its steps in order, a step
\* with catch set is wrapped in try/except ParseError, returns the tuple of values.
sequence(steps) == [t |-> "sequence", steps |-> steps]

Step(p, catch) == [p |-> p, catch |-> catch]

GroupTypes == {"error", "either", "then", "followed_by", "optional", "replicated", "sequence"}

(***************************************************************************)
(* parse.__name__ of a parser.                                             *)
(***************************************************************************)
RECURSIVE Name(_)
Name(p) ==
    CASE p.t = "location" -> "<location>"
      [] p.t = "dot" -> "."
      [] p.t = "character" -> "[" \o Join(p.character) \o "]"
      [] p.t = "error" -> "<error>"
      [] p.t = "literal" -> Repr(p.value)
      [] p.t = "either" -> "(" \o Name(p.a) \o " / " \o Name(p.b) \o ")"
      [] p.t = "then" -> Name(p.a) \o " " \o Name(p.b)
      [] p.t = "followed_by" -> Name(p.a) \o " " \o Name(p.b)
      [] p.t = "optional" -> "(" \o Name(p.a) \o ")?"
      [] p.t = "index" -> "<index>"
      [] p.t = "replicated" -> "(" \o Name(p.a) \o ")" \o p.operator
      [] p.t = "succeed" -> "<lambda>"
      [] p.t = "sequence" -> "sequence"

(***************************************************************************)
(* The primitive step functions.  source[index] with index past the end    *)
(* raises IndexError.                                                      *)
(***************************************************************************)
parse_location(src, index) == Ok(compute_location(src, index), index)

parse_dot(src, index) ==
    IF index = Len(src)
    THEN ParseError(compute_location(src, index), "Unexpected EOF")
    ELSE IF index > Len(src)
    THEN IndexError
    ELSE Ok(Str(<<src[index + 1]>>), index + 1)

parse_character(p, src, index) ==
    IF index = Len(src)
    THEN ParseError(compute_location(src, index), "Unexpected EOF")
    ELSE IF index > Len(src)
    THEN IndexError
    ELSE IF \E q \in 1..Len(p.character) : p.character[q] = src[index + 1]
    THEN Ok(Str(<<src[index + 1]>>), index + 1)
    ELSE ParseError(compute_location(src, index),
                    "Unexpected character, expected one of " \o Repr(p.character))

parse_literal(p, src, index) ==
    LET next_index == index + Len(p.value)
        match == Slice(src, index, next_index)
    IN IF normalize(p.normalize, match) = normalize(p.normalize, p.value)
       THEN Ok(Str(p.value), next_index)
       ELSE ParseError(compute_location(src, index), "Expected " \o Repr(p.value))

parse_index(src, index) == Ok(IntV(index), index)

parse_succeed(p, src, index) == Ok(p.value, index)

(***************************************************************************)
(* Generators.  A generator is resumed with next, send(value) or           *)
(* throw(error) and answers by yielding a parser, returning a value        *)
(* (StopIteration) or raising.                                             *)
(***************************************************************************)
Gen0 == [pc |-> "start", matches |-> <<>>, idx |-> 0, held |-> None, step |-> 0]

Yield(q, g) == [k |-> "yield", parser |-> q, gen |-> g]

Return(v) == [k |-> "return", value |-> v]

Raise(e) == [k |-> "raise", error |-> e]

parse_error(p, g, inp) ==
    CASE g.pc = "start" -> Yield(location, [g EXCEPT !.pc = "loc"])
      [] g.pc = "loc" /\ inp.k = "send" -> Raise(ParseError(inp.value, p.message))
      [] g.pc = "loc" /\ inp.k = "throw" -> Raise(inp.error)

\* Mutant: the failure of a is not caught, b is never tried.
parse_either_no_fallback(p, g, inp) ==
    CASE g.pc = "start" -> Yield(p.a, [g EXCEPT !.pc = "a"])
      [] g.pc = "a" /\ inp.k = "send" -> Return(inp.value)
      [] g.pc = "a" /\ inp.k = "throw" -> Raise(inp.error)

\* Mutant: b is tried after a whether a failed or not.
parse_either_fallthrough(p, g, inp) ==
    CASE g.pc = "start" -> Yield(p.a, [g EXCEPT !.pc = "a"])
      [] g.pc = "a" -> Yield(p.b, [g EXCEPT !.pc = "b"])
      [] g.pc = "b" /\ inp.k = "send" -> Return(inp.value)
      [] g.pc = "b" /\ inp.k = "throw" -> Raise(inp.error)

parse_either(p, g, inp) ==
    CASE g.pc = "start" -> Yield(p.a, [g EXCEPT !.pc = "a"])
      [] g.pc = "a" /\ inp.k = "send" -> Return(inp.value)
      [] g.pc = "a" /\ inp.k = "throw" -> Yield(p.b, [g EXCEPT !.pc = "b"])
      [] g.pc = "b" /\ inp.k = "send" -> Return(inp.value)
      [] g.pc = "b" /\ inp.k = "throw" -> Raise(inp.error)

then_parse_sequence(p, g, inp) ==
    CASE g.pc = "start" -> Yield(p.a, [g EXCEPT !.pc = "a"])
      [] g.pc = "a" /\ inp.k = "send" -> Yield(p.b, [g EXCEPT !.pc = "b"])
      [] g.pc = "a" /\ inp.k = "throw" -> Raise(inp.error)
      [] g.pc = "b" /\ inp.k = "send" -> Return(inp.value)
      [] g.pc = "b" /\ inp.k = "throw" -> Raise(inp.error)

\* Mutant: followed_by returns the value of b.
followed_by_returns_second(p, g, inp) ==
    CASE g.pc = "start" -> Yield(p.a, [g EXCEPT !.pc = "a"])
      [] g.pc = "a" /\ inp.k = "send" -> Yield(p.b, [g EXCEPT !.pc = "b"])
      [] g.pc = "a" /\ inp.k = "throw" -> Raise(inp.error)
      [] g.pc = "b" /\ inp.k = "send" -> Return(inp.value)
      [] g.pc = "b" /\ inp.k = "throw" -> Raise(inp.error)

followed_by_parse_sequence(p, g, inp) ==
    CASE g.pc = "start" -> Yield(p.a, [g EXCEPT !.pc = "a"])
      [] g.pc = "a" /\ inp.k = "send" -> Yield(p.b, [g EXCEPT !.pc = "b", !.held = inp.value])
      [] g.pc = "a" /\ inp.k = "throw" -> Raise(inp.error)
      [] g.pc = "b" /\ inp.k = "send" -> Return(g.held)
      [] g.pc = "b" /\ inp.k = "throw" -> Raise(inp.error)

\* Mutant: the failure of a escapes optional.
parse_option_reraise(p, g, inp) ==
    CASE g.pc = "start" -> Yield(p.a, [g EXCEPT !.pc = "a"])
      [] g.pc = "a" /\ inp.k = "send" -> Return(inp.value)
      [] g.pc = "a" /\ inp.k = "throw" -> Raise(inp.error)

parse_option(p, g, inp) ==
    CASE g.pc = "start" -> Yield(p.a, [g EXCEPT !.pc = "a"])
      [] g.pc = "a" /\ inp.k = "send" -> Return(inp.value)
      [] g.pc = "a" /\ inp.k = "throw" -> Return(p.default)

\* Mutant: the count of matches must exceed min_count.
replicated_finish_strict(p, g) ==
    IF Len(g.matches) > p.min_count
    THEN Return(List(g.matches))
    ELSE Yield(error("Not enough matches of " \o Name(p.a)), [g EXCEPT !.pc = "error"])

\* The code after the try block of parse_replicated.
replicated_finish(p, g) ==
    IF Len(g.matches) >= p.min_count
    THEN Return(List(g.matches))
    ELSE Yield(error("Not enough matches of " \o Name(p.a)), [g EXCEPT !.pc = "error"])

\* Mutant: the loop without its epsilon guard.
replicated_loop_unguarded(p, g, idx_prime) ==
    Yield(index_, [g EXCEPT !.pc = "idx", !.matches = Append(g.matches, g.held)])

\* After idx_prime = yield _index: append the match, break on an epsilon match.
replicated_loop(p, g, idx_prime) ==
    LET appended == [g EXCEPT !.matches = Append(g.matches, g.held)]
    IN IF idx_prime = g.idx
       THEN replicated_finish(p, appended)
       ELSE Yield(index_, [appended EXCEPT !.pc = "idx"])

parse_replicated(p, g, inp) ==
    CASE g.pc = "start" -> Yield(index_, [g EXCEPT !.pc = "idx"])
      [] g.pc = "idx" /\ inp.k = "send" ->
            Yield(p.a, [g EXCEPT !.pc = "a", !.idx = inp.value.n])
      [] g.pc = "a" /\ inp.k = "send" ->
            Yield(index_, [g EXCEPT !.pc = "idx_prime", !.held = inp.value])
      [] g.pc = "idx_prime" /\ inp.k = "send" -> replicated_loop(p, g, inp.value.n)
      [] g.pc \in {"idx", "a", "idx_prime"} /\ inp.k = "throw" -> replicated_finish(p, g)
      [] g.pc = "error" /\ inp.k = "send" -> Return(None)
      [] g.pc = "error" /\ inp.k = "throw" -> Raise(inp.error)

\* The generator of a user sequence: step g.step was yielded last.
sequence_from(p, g, n) ==
    IF n > Len(p.steps)
    THEN Return(Tuple(g.matches))
    ELSE Yield(p.steps[n].p, [g EXCEPT !.pc = "step", !.step = n])

user_sequence(p, g, inp) ==
    CASE g.pc = "start" -> sequence_from(p, g, 1)
      [] g.pc = "step" /\ inp.k = "send" ->
            sequence_from(p, [g EXCEPT !.matches = Append(g.matches, inp.value)], g.step + 1)
      [] g.pc = "step" /\ inp.k = "throw" /\ p.steps[g.step].catch ->
            sequence_from(p, [g EXCEPT !.matches = Append(g.matches, None)], g.step + 1)
      [] g.pc = "step" /\ inp.k = "throw" /\ ~p.steps[g.step].catch -> Raise(inp.error)

\* iterator.next / send / throw on the generator of parser p.
Resume(p, g, inp) ==
    CASE p.t = "error" -> parse_error(p, g, inp)
      [] p.t = "either" -> parse_either(p, g, inp)
      [] p.t = "then" -> then_parse_sequence(p, g, inp)
      [] p.t = "followed_by" -> followed_by_parse_sequence(p, g, inp)
      [] p.t = "optional" -> parse_option(p, g, inp)
      [] p.t = "replicated" -> parse_replicated(p, g, inp)
      [] p.t = "sequence" -> user_sequence(p, g, inp)

(***************************************************************************)
(* The parsers a caller builds: the inputs of the model.                   *)
(***************************************************************************)
chr_a == character(<<"a">>)

lit_strip == literal(<<"a", NL>>, "strip")

lit_aA == literal(<<"a", "A">>, "identity")

bees == Str(<<"b", "e", "e", "s">>)

Operands == {dot, chr_a, lit_strip, error("boom")}

Small == {dot, chr_a, lit_aA}

Literals ==
    {literal(v, n) : v \in {<<"a">>, <<"a", "A">>, <<"a", NL>>},
                     n \in {"identity", "lower", "strip"}}

Sequences2 ==
    {sequence(<<Step(x, cx), Step(y, cy)>>) :
        x \in {dot, chr_a}, cx \in BOOLEAN, y \in {dot, chr_a}, cy \in BOOLEAN}

Sequences3 ==
    {sequence(<<Step(dot, FALSE), Step(y, cy), Step(dot, FALSE)>>) :
        y \in {dot, chr_a}, cy \in BOOLEAN}

Nested ==
    {star(star(dot)), star(optional(dot, None)), star(location), plus(location),
     plus(star(chr_a)), star(then(dot, chr_a)), star(either(chr_a, lit_aA)),
     star(then(lit_strip, dot))}
    \cup {either(then(x, y), z) : x \in {dot, chr_a}, y \in {dot, chr_a}, z \in {dot, chr_a}}
    \cup {then(either(x, y), z) : x \in Small, y \in Small, z \in Small}
    \cup {then(star(x), z) : x \in Small, z \in Small}

Roots ==
    {location, dot, chr_a, error("boom")}
    \cup Literals
    \cup {either(x, y) : x \in Operands, y \in Operands}
    \cup {then(x, y) : x \in Operands, y \in Operands}
    \cup {option(x) : x \in Operands}
    \cup {optional(x, bees) : x \in Operands}
    \cup {star(x) : x \in Operands \cup {location}}
    \cup {plus(x) : x \in Operands \cup {location}}
    \cup Sequences2 \cup Sequences3 \cup Nested

\* The parser the same caller compares a run against: followed_by for then,
\* either(a, succeed(default)) for optional.
Twin(p) ==
    CASE p.t = "then" -> followed_by(p.a, p.b)
      [] p.t = "optional" -> either(p.a, succeed(p.default))

(***************************************************************************)
(* The machine.                                                            *)
(***************************************************************************)
Frame(p, index) == [p |-> p, index |-> index, gen |-> Gen0]

CallEvent(depth, p, index) ==
    [e |-> "call", depth |-> depth, p |-> p, index |-> index, res |-> NoRet]

RetEvent(depth, p, index, res) ==
    [e |-> "ret", depth |-> depth, p |-> p, index |-> index, res |-> res]

Top == stack[Len(stack)]

Init ==
    /\ source \in Sources
    /\ root \in Roots
    /\ mode = "none"
    /\ start = 0
    /\ phase = "init"
    /\ stack = <<>>
    /\ ret = NoRet
    /\ outcome = NoRet
    /\ log = <<>>
    /\ first = NoRet

\* parser.parse(source, index): enter the step function of the root parser.
Enter(m, p, index) ==
    /\ mode' = m
    /\ start' = index
    /\ phase' = "running"
    /\ stack' = <<Frame(p, index)>>
    /\ ret' = NoRet
    /\ outcome' = NoRet
    /\ log' = <<CallEvent(1, p, index)>>
    /\ UNCHANGED source

\* Parser.execute: result, final_index = self.parse(source, 0)
Execute ==
    /\ phase = "init"
    /\ Enter("execute", root, 0)
    /\ UNCHANGED <<root, first>>

\* A direct call of the step function at any index of the source.
ParseCall ==
    /\ phase = "init"
    /\ \E i \in 0..Len(source) : Enter("parse", root, i)
    /\ UNCHANGED <<root, first>>

\* The same call again on the twin parser, keeping the first run's result.
ParseTwin ==
    /\ phase = "done"
    /\ mode = "parse"
    /\ first = NoRet
    /\ root.t \in {"then", "optional"}
    /\ first' = ret
    /\ root' = Twin(root)
    /\ Enter("parse", Twin(root), start)

\* The step function on top of the stack returns or raises res.
Finish(res) ==
    /\ stack' = SubSeq(stack, 1, Len(stack) - 1)
    /\ ret' = res
    /\ log' = Append(log, RetEvent(Len(stack), Top.p, Top.index, res))
    /\ phase' = IF Len(stack) > 1 THEN phase
                ELSE IF mode = "execute" THEN "returned" ELSE "done"
    /\ UNCHANGED <<source, root, mode, start, outcome, first>>

Running(t) == phase = "running" /\ stack # <<>> /\ Top.p.t = t

ParseLocation == Running("location") /\ Finish(parse_location(source, Top.index))

ParseDot == Running("dot") /\ Finish(parse_dot(source, Top.index))

ParseCharacter == Running("character") /\ Finish(parse_character(Top.p, source, Top.index))

ParseLiteral == Running("literal") /\ Finish(parse_literal(Top.p, source, Top.index))

ParseIndex == Running("index") /\ Finish(parse_index(source, Top.index))

ParseSucceed == Running("succeed") /\ Finish(parse_succeed(Top.p, source, Top.index))

\* parse_group after resuming its generator with inp, its index being `index`.
Drive(index, inp) ==
    LET out == Resume(Top.p, Top.gen, inp)
    IN CASE out.k = "yield" ->
              /\ stack' = Append([stack EXCEPT ![Len(stack)] =
                                     [Top EXCEPT !.index = index, !.gen = out.gen]],
                                 Frame(out.parser, index))
              /\ ret' = NoRet
              /\ log' = Append(log, CallEvent(Len(stack) + 1, out.parser, index))
              /\ UNCHANGED <<source, root, mode, start, phase, outcome, first>>
         [] out.k = "return" -> Finish(Ok(out.value, index))
         [] out.k = "raise" -> Finish(out.error)

InGroup == phase = "running" /\ stack # <<>> /\ Top.p.t \in GroupTypes

\* iterator = fn(); subexpression = next(iterator)
ParseGroupNext ==
    /\ InGroup
    /\ Top.gen.pc = "start"
    /\ Drive(Top.index, [k |-> "next"])

\* Mutant: the new index of a successful step is dropped.
ParseGroupSend_stale ==
    /\ InGroup
    /\ Top.gen.pc # "start"
    /\ ret.k = "ok"
    /\ Drive(Top.index, [k |-> "send", value |-> ret.value])

\* subvalue, index = subexpression.parse(...); subexpression = iterator.send(subvalue)
ParseGroupSend ==
    /\ InGroup
    /\ Top.gen.pc # "start"
    /\ ret.k = "ok"
    /\ Drive(ret.index, [k |-> "send", value |-> ret.value])

\* except ParseError as parse_error: subexpression = iterator.throw(parse_error)
ParseGroupThrow ==
    /\ InGroup
    /\ Top.gen.pc # "start"
    /\ ret.k = "err"
    /\ Drive(Top.index, [k |-> "throw", error |-> ret])

\* Any other exception of the sub-parser leaves parse_group as it is.
ParseGroupEscape ==
    /\ InGroup
    /\ Top.gen.pc # "start"
    /\ ret.k = "exc"
    /\ Finish(ret)

\* Mutant: execute without the residue check.
execute_no_residue(src, res) ==
    IF res.k = "ok" THEN [k |-> "value", value |-> res.value] ELSE res

\* Parser.execute after self.parse returned: the residue check.
execute(src, res) ==
    IF res.k = "ok"
    THEN IF res.index # Len(src)
         THEN ParseError(compute_location(src, res.index),
                         "Partial parse, residue is "
                             \o Repr(Slice(src, res.index, Len(src))))
         ELSE [k |-> "value", value |-> res.value]
    ELSE res

ExecuteReturn ==
    /\ phase = "returned"
    /\ outcome' = execute(source, ret)
    /\ phase' = "done"
    /\ UNCHANGED <<source, root, mode, start, stack, ret, log, first>>

Step_ ==
    \/ ParseLocation
    \/ ParseDot
    \/ ParseCharacter
    \/ ParseLiteral
    \/ ParseIndex
    \/ ParseSucceed
    \/ ParseGroupNext
    \/ ParseGroupSend
    \/ ParseGroupThrow
    \/ ParseGroupEscape
    \/ ExecuteReturn

Next == Execute \/ ParseCall \/ ParseTwin \/ Step_

Spec == Init /\ [][Next]_vars

\* The runs of star and plus (and one optional, for its twin).  A started
\* call runs to completion: execution is synchronous.
RepeatRoots == {r \in Roots : r.t = "replicated"} \cup {option(dot)}

InitRepeat == Init /\ root \in RepeatRoots

RepeatSpec == InitRepeat /\ [][Next]_vars /\ WF_vars(Step_)

Done == phase = "done"

(***************************************************************************)
(* The record of one run: the calls and returns at a given stack depth.    *)
(* The root step function is at depth 1, the parsers it yields at depth 2. *)
(***************************************************************************)
IsCall(ev, depth) == ev.e = "call" /\ ev.depth = depth

IsRet(ev, depth) == ev.e = "ret" /\ ev.depth = depth

Calls(depth) == SelectSeq(log, LAMBDA ev : IsCall(ev, depth))

Rets(depth) == SelectSeq(log, LAMBDA ev : IsRet(ev, depth))

CallsOf(q) == SelectSeq(log, LAMBDA ev : IsCall(ev, 2) /\ ev.p = q)

RetsOf(q) == SelectSeq(log, LAMBDA ev : IsRet(ev, 2) /\ ev.p = q)

Succeeded(rets) == SelectSeq(rets, LAMBDA ev : ev.res.k = "ok")

Values(rets) == [n \in 1..Len(rets) |-> rets[n].res.value]

\* The index a parse that started at `from` reached after the returns `rets`.
EndIndex(rets, from) == IF rets = <<>> THEN from ELSE rets[Len(rets)].res.index

(***************************************************************************)
(* C1: execute runs the step at index 0; it returns the value exactly when *)
(* the step succeeds with newIndex = len(source); a success with any other *)
(* newIndex becomes a 'Partial parse' failure located exactly at newIndex; *)
(* a failure of the step is the outcome unchanged.                         *)
(***************************************************************************)
C1_ExecuteResidue ==
    (Done /\ mode = "execute") =>
        /\ log[1] = CallEvent(1, root, 0)
        /\ (outcome.k = "value") <=> (ret.k = "ok" /\ ret.index = Len(source))
        /\ outcome.k = "value" => outcome.value = ret.value
        /\ (ret.k = "ok" /\ ret.index # Len(source)) =>
              /\ outcome =
                    ParseError(compute_location(source, ret.index),
                               "Partial parse, residue is "
                                   \o Repr(SubSeq(source, ret.index + 1, Len(source))))
              /\ \A j \in 0..Len(source) :
                    j # ret.index => compute_location(source, j) # outcome.location
        /\ ret.k = "err" => outcome = ret

C1_Witness ==
    /\ Done
    /\ mode = "execute"
    /\ ret.k = "ok"
    /\ ret.index < Len(source)
    /\ ret.index > 0
    /\ outcome.k = "err"

(***************************************************************************)
(* C2: either(a, b) runs a at the start index; if a succeeds its result is *)
(* the result and b is not attempted; if a fails, b is attempted at the    *)
(* same start index and b's outcome is the outcome.                        *)
(***************************************************************************)
C2_EitherBacktracks ==
    (Done /\ root.t = "either") =>
        LET calls == Calls(2)
            rets == Rets(2)
        IN /\ Len(calls) >= 1
           /\ calls[1].p = root.a
           /\ calls[1].index = start
           /\ rets[1].res.k = "ok" => (Len(calls) = 1 /\ ret = rets[1].res)
           /\ rets[1].res.k = "err" =>
                 /\ Len(calls) = 2
                 /\ calls[2].p = root.b
                 /\ calls[2].index = start
                 /\ ret = rets[2].res

\* a is a sequence whose first step consumed input before its second failed.
C2_Witness ==
    /\ Done
    /\ root.t = "either"
    /\ root.a.t = "then"
    /\ Rets(2)[1].res.k = "err"
    /\ Rets(3)[1].res.k = "ok"
    /\ Rets(3)[1].res.index > start
    /\ ret.k = "ok"
    /\ ret.index > start

(***************************************************************************)
(* C3: star(a) and plus(a) attempt a repeatedly, each attempt starting     *)
(* where the previous successful one ended; the failure of a ends the loop *)
(* and is swallowed.  With at least min_count matches the result is the    *)
(* list of a's values in order and the index after the last match;         *)
(* otherwise it is a 'Not enough matches' failure naming a, located at the *)
(* start index.                                                            *)
(***************************************************************************)
C3_Replicated ==
    (Done /\ root.t = "replicated") =>
        LET calls == CallsOf(root.a)
            rets == RetsOf(root.a)
            matched == Succeeded(rets)
        IN /\ Len(calls) >= 1
           /\ calls[1].index = start
           /\ \A n \in 2..Len(calls) :
                 /\ rets[n - 1].res.k = "ok"
                 /\ calls[n].index = rets[n - 1].res.index
           /\ rets[Len(rets)].res.k \in {"ok", "err"} =>
                 IF Len(matched) >= root.min_count
                 THEN ret = Ok(List(Values(matched)), EndIndex(matched, start))
                 ELSE ret = ParseError(compute_location(source, start),
                                       "Not enough matches of " \o Name(root.a))

\* Two matches, then the failure that ends the loop is swallowed.
C3_Witness ==
    /\ Done
    /\ root.t = "replicated"
    /\ ret.k = "ok"
    /\ Len(ret.value.items) = 2
    /\ Len(RetsOf(root.a)) = 3
    /\ RetsOf(root.a)[3].res.k = "err"
    /\ ret.index > start

(***************************************************************************)
(* C4: star(a) and plus(a) terminate: every attempt of a that is followed  *)
(* by another attempt strictly advanced the index, so a zero-width match   *)
(* is recorded once and is the last attempt; a sub-parser matching         *)
(* zero-width at the start yields a list of exactly one element, and       *)
(* star(star(dot)) on a one-character source yields [[c], []].  Every      *)
(* started parse runs to completion.                                       *)
(***************************************************************************)
C4_EpsilonGuard ==
    (root.t = "replicated" /\ phase # "init") =>
        LET calls == CallsOf(root.a)
            rets == RetsOf(root.a)
        IN /\ \A n \in 1..Len(rets) :
                 n < Len(calls) => rets[n].res.index > calls[n].index
           /\ (Done /\ rets[1].res.k = "ok" /\ rets[1].res.index = start) =>
                 ret = Ok(List(<<rets[1].res.value>>), start)
           /\ (Done /\ root = star(star(dot)) /\ Len(source) = 1 /\ start = 0) =>
                 ret = Ok(List(<<List(<<Str(source)>>), List(<<>>)>>), 1)

C5_ThenFollowedBy ==
    (Done /\ root.t \in {"then", "followed_by"}) =>
        LET calls == Calls(2)
            rets == Rets(2)
        IN /\ Len(calls) >= 1
           /\ calls[1].p = root.a
           /\ calls[1].index = start
           /\ rets[1].res.k = "err" => (Len(calls) = 1 /\ ret = rets[1].res)
           /\ rets[1].res.k = "ok" =>
                 /\ Len(calls) = 2
                 /\ calls[2].p = root.b
                 /\ calls[2].index = rets[1].res.index
                 /\ rets[2].res.k = "err" => ret = rets[2].res
                 /\ rets[2].res.k = "ok" =>
                       ret = Ok(IF root.t = "then" THEN rets[2].res.value
                                ELSE rets[1].res.value,
                                rets[2].res.index)
           /\ (root.t = "followed_by" /\ first # NoRet) =>
                 /\ first.k = ret.k
                 /\ ret.k = "ok" => first.index = ret.index
                 /\ ret.k # "ok" => first = ret

\* Both succeeded on the same input and returned different values.
C5_Witness ==
    /\ Done
    /\ root.t = "followed_by"
    /\ first.k = "ok"
    /\ ret.k = "ok"
    /\ first.index = ret.index
    /\ first.value # ret.value

(***************************************************************************)
(* C6: optional(a, d) never fails: it returns a's result when a succeeds   *)
(* and d at the start index when a fails, which is the outcome of          *)
(* either(a, q) for q always succeeding with d and consuming nothing; the  *)
(* default d is None.                                                      *)
(***************************************************************************)
C6_Optional ==
    /\ (Done /\ root.t = "optional") =>
          LET calls == Calls(2)
              rets == Rets(2)
          IN /\ ret.k # "err"
             /\ Len(calls) = 1
             /\ calls[1].p = root.a
             /\ calls[1].index = start
             /\ rets[1].res.k = "ok" => ret = rets[1].res
             /\ rets[1].res.k = "err" => ret = Ok(root.default, start)
    /\ (Done /\ root.t = "either" /\ first # NoRet) => ret = first
    /\ option(dot).default = None

\* a failed, and optional and its either twin both gave the default, consuming nothing.
C6_Witness ==
    /\ Done
    /\ root.t = "either"
    /\ first = Ok(bees, start)
    /\ ret = first
    /\ Rets(2)[1].res.k = "err"

(***************************************************************************)
(* C7: literal(v, n) succeeds exactly when n(s[i : i+len(v)]) = n(v),      *)
(* returning v itself and newIndex = i + len(v); otherwise, and whenever   *)
(* fewer than len(v) elements remain, it fails with 'Expected v' located   *)
(* at i.                                                                   *)
(***************************************************************************)
C7_Literal ==
    (Done /\ root.t = "literal") =>
        LET v == root.value
            matched == SubSeq(source, start + 1, Min(start + Len(v), Len(source)))
        IN /\ (ret.k = "ok") <=> (normalize(root.normalize, matched) = normalize(root.normalize, v))
           /\ ret.k = "ok" => ret = Ok(Str(v), start + Len(v))
           /\ ret.k # "ok" =>
                 ret = ParseError(compute_location(source, start), "Expected " \o Repr(v))
           /\ Len(source) - start < Len(v) => ret.k = "err"

(***************************************************************************)
(* C8: in a generator sequence every yielded step runs at the index where  *)
(* the previous successful step ended; an uncaught failure of a step is    *)
(* the failure of the sequence; after a caught failure the next step runs  *)
(* at the index the earlier successful steps reached, which is not rolled  *)
(* back.                                                                   *)
(***************************************************************************)
C8_SequenceIndex ==
    (Done /\ root.t \in GroupTypes) =>
        LET calls == Calls(2)
            rets == Rets(2)
            last == Len(calls)
        IN /\ \A n \in 1..Len(calls) :
                 calls[n].index =
                    IF n = 1 THEN start
                    ELSE IF rets[n - 1].res.k = "ok" THEN rets[n - 1].res.index
                    ELSE calls[n - 1].index
           /\ root.t = "sequence" =>
                 /\ \A n \in 1..Len(calls) : calls[n].p = root.steps[n].p
                 /\ \A n \in 1..Len(rets) :
                       /\ (rets[n].res.k = "err" /\ ~root.steps[n].catch) =>
                             (n = last /\ ret = rets[n].res)
                       /\ (rets[n].res.k = "err" /\ root.steps[n].catch /\ n < Len(root.steps)) =>
                             last > n
                 /\ ret.k = "ok" =>
                       /\ last = Len(root.steps)
                       /\ ret = Ok(Tuple([n \in 1..last |->
                                            IF rets[n].res.k = "ok" THEN rets[n].res.value
                                            ELSE None]),
                                   IF rets[last].res.k = "ok" THEN rets[last].res.index
                                   ELSE calls[last].index)

\* The second step failed and was caught; the third ran where the first ended.
C8_Witness ==
    /\ Done
    /\ root.t = "sequence"
    /\ Len(Calls(2)) = 3
    /\ Rets(2)[1].res.k = "ok"
    /\ Rets(2)[2].res.k = "err"
    /\ Calls(2)[3].index = Rets(2)[1].res.index
    /\ Calls(2)[3].index > start
    /\ ret.k = "ok"

(***************************************************************************)
(* C9: a step function started at an index i within 0..len(source) that    *)
(* succeeds returns a newIndex with i <= newIndex <= len(source); a        *)
(* failure leaves the index of the caller where it was.                    *)
(***************************************************************************)
C9_IndexInvariant ==
    /\ \A n \in 1..Len(log) :
          (log[n].e = "ret" /\ log[n].res.k = "ok" /\ log[n].index <= Len(source)) =>
              (log[n].index <= log[n].res.index /\ log[n].res.index <= Len(source))
    /\ \A n \in 2..Len(Calls(2)) :
          (Len(Rets(2)) >= n - 1 /\ Rets(2)[n - 1].res.k = "err") =>
              Calls(2)[n].index = Calls(2)[n - 1].index

(***************************************************************************)
(* C10: a parser gives one result per (source, index): when either(a, b)   *)
(* or star(a) succeeded and the next step c of the enclosing then fails,   *)
(* then fails with c's failure; either and star are entered once, b is     *)
(* never attempted after a succeeded, and star is not retried with fewer   *)
(* repetitions.                                                            *)
(***************************************************************************)
C10_NoReentry ==
    (Done /\ root.t = "then" /\ root.a.t \in {"either", "replicated"}
          /\ root.b.t \notin GroupTypes) =>
        LET calls == Calls(2)
            rets == Rets(2)
            inner == Calls(3)
            innerRets == Rets(3)
        IN (rets[1].res.k = "ok" /\ Len(rets) = 2 /\ rets[2].res.k = "err") =>
              /\ Len(calls) = 2
              /\ calls[2].p = root.b
              /\ calls[2].index = rets[1].res.index
              /\ ret = rets[2].res
              /\ (root.a.t = "either" /\ innerRets[1].res.k = "ok") => Len(inner) = 1
              /\ root.a.t = "replicated" =>
                    \A n \in 2..Len(inner) : inner[n].index >= inner[n - 1].index

\* a matched, c failed after it, and b followed by c would have matched all of "aAa".
C10_Witness ==
    /\ Done
    /\ root = then(either(chr_a, lit_aA), chr_a)
    /\ source = <<"a", "A", "a">>
    /\ start = 0
    /\ ret.k = "err"
    /\ Len(Calls(3)) = 1

====
